---- MODULE Spec2Model ----
(***************************************************************************)
(* Channel downloader: the page driver (DownloadChannel.downloadChannel),  *)
(* its retry wrapper and rate governor, the per-message pipelines          *)
(* (processMessage) and the persisted checkpoint, as a state machine.      *)
(* One action is one run-to-the-next-await segment of the event loop.      *)
(***************************************************************************)
EXTENDS Integers, Sequences, FiniteSets, TLC

(* ---- program constants -------------------------------------------------- *)
MAX_PARALLEL_PROCESS == 5
MESSAGE_LIMIT == 100
RATE_LIMIT_DELAY == 1500
MAX_RETRIES == 3
BACKOFF_BASE == 1000
RATE_THRESHOLD == 15
RATE_WINDOW == 60000
COOLING_WAIT == 60000
DEFAULT_FLOOD_SECONDS == 300
HANDLER_COOLDOWN == 30000

(* ---- bounds of the model ------------------------------------------------ *)
\* messages in the source channel when the transport returns them in one page
MaxMsgs == 6
\* messages in the source channel when it is read in several pages
SmallMsgs == 3
\* transport failures injected into a run over a non-empty channel
MaxFaults == 3
\* transport failures injected into a run over an empty channel
MaxFloods == 17
\* process restarts after an exit
MaxRestarts == 1
\* the seconds hint a flood-wait error carries
FloodHint == 30
\* messages in a channel of one message kind after the other
KindMsgs == 4
\* messages in a channel that is read again after the channel was switched
RerunMsgs == 2
\* transport failures injected into a run that uploads a small channel
UploadFaults == 2

(* ---- values ------------------------------------------------------------- *)
Nil == "nil"
\* undefined / null in a field that holds numbers
Undefined == 0 - 1
Channels == {1, 2}
Layouts == {"media", "mixed"}
Policies == {{"all"}, {}}
\* channels of one message kind after the other: structured payloads, files
\* and stickers; the policies they are read under
KindLayouts == {"payloads", "places", "files", "stickers"}
KindPolicies == {{"all"}, {}, {"video", "poll"}, {"jpeg"}}

Min(a, b) == IF a < b THEN a ELSE b

RECURSIVE Pow2(_)
Pow2(n) == IF n = 0 THEN 1 ELSE 2 * Pow2(n - 1)

\* A message of the source channel: text is "none" (absent), "str" (a
\* non-blank string) or "bad" (a truthy value that is no string); media is
\* "none" or the one populated field of message.media ("webpage_photo" is a
\* webpage with a preview photo, every webpage has a url); sticker tells
\* whether message.sticker is set.
Msg(id, text, media, sticker) ==
  [id |-> id, text |-> text, media |-> media, sticker |-> sticker]

KindsOf(layout) ==
  CASE layout = "payloads" -> <<"poll", "webpage", "geo", "webpage_photo">>
    [] layout = "places"   -> <<"contact", "venue", "photo", "geo">>
    [] layout = "files"    -> <<"video", "document", "voice", "audio">>
    [] OTHER               -> <<"none", "document", "photo", "none">>

MsgAt(layout, id) ==
  CASE layout = "media" -> Msg(id, "str", "photo", FALSE)
    [] layout = "mixed" ->
         CASE id % 4 = 1 -> Msg(id, "str", "none", FALSE)
           [] id % 4 = 2 -> Msg(id, "none", "photo", FALSE)
           [] id % 4 = 3 -> Msg(id, "bad", "none", FALSE)
           [] OTHER      -> Msg(id, "none", "none", FALSE)
    [] OTHER ->
         Msg(id, IF id % 2 = 0 THEN "str" ELSE "none",
             KindsOf(layout)[((id - 1) % 4) + 1],
             layout = "stickers" /\ id % 4 \in {1, 2, 0})

\* errors raised by the transport: the message text is what the driver reads
NoErr == [flood |-> FALSE, hint |-> Undefined, none |-> TRUE]
TransportErrors ==
  { [flood |-> FALSE, hint |-> Undefined, none |-> FALSE],
    [flood |-> TRUE, hint |-> FloodHint, none |-> FALSE],
    [flood |-> TRUE, hint |-> Undefined, none |-> FALSE] }

VARIABLES
  \* --- the world outside the process
  numMsgs,        \* size of the source channel (ids 1..numMsgs)
  layout,         \* which content the channel holds
  pageCap,        \* the most messages the transport returns for one fetch
  answers,        \* what the user answers to configureDownload's prompts
  faultsLeft,     \* transport failures still to be injected
  restartsLeft,   \* process restarts still to come
  lastSelection,  \* the persisted checkpoint {channelId, messageOffsetId}
  transcript,     \* all_messages.json per channel: ids in append order
  disk,           \* per channel: ids whose file at getMediaPath is on disk
  sidecars,       \* per channel: ids whose record or preview was written
  \* --- DownloadChannel fields
  uploadMode, targetChannelId, channelId,
  downloadableFiles, \* the download policy: the set of enabled tokens
  requestCount,   \* this.requestCount
  sinceLast,      \* Date.now() - this.lastRequestTime, saturating at RATE_WINDOW
  totalDownloaded, totalUploaded, totalMessages, totalProcessedMessages,
  \* --- control state of handle / downloadChannel / retryWithBackoff
  hpc,            \* handle: "start", "run", "cooldown", "exited"
  pc,             \* position of the innermost downloadChannel invocation
  stack,          \* downloadChannel invocations, innermost last
  op,             \* the operation under retryWithBackoff: "fetch" or "detail"
  attempt,        \* retryWithBackoff's loop index i
  err,            \* the error being handled or propagated
  waitMs,         \* argument of the pending this.wait(ms)
  messages,       \* the page: ids returned by getMessages
  toProcess,      \* messagesToProcess: ids that passed shouldProcess
  batch,          \* index i of the loop awaiting processPromises[i]
  pipes,          \* one record per processMessage invocation of the page
  \* --- history (observation only)
  callAges,       \* ages (ms) of the gated calls of the last RATE_WINDOW
  fetchOffset,    \* offsetId of the latest transport fetch call
  calls,          \* fn invocations of the current retryWithBackoff
  admits,         \* checkRateLimit returns of the current retryWithBackoff
  cools,          \* cooling waits of the current checkRateLimit call
  finished,       \* per channel: ids whose pipeline has returned
  recorded        \* ids appended to the transcript by this process, in order

world == <<numMsgs, layout, pageCap, answers, faultsLeft, restartsLeft>>
store == <<lastSelection, transcript, disk, sidecars>>
config == <<uploadMode, targetChannelId, channelId, downloadableFiles>>
governor == <<requestCount, sinceLast, callAges, cools>>
counters == <<totalDownloaded, totalUploaded, totalMessages, totalProcessedMessages>>
control == <<hpc, pc, stack, op, attempt, err, waitMs>>
page == <<messages, toProcess, batch, pipes>>
history == <<fetchOffset, calls, admits, finished, recorded>>
vars == <<world, store, config, governor, counters, control, page, history>>

Top == stack[Len(stack)]
Frame(offset, site) == [offsetMsgId |-> offset, site |-> site]

(* ---- content classifier -------------------------------------------------- *)
Truthy(field) == field # "none"

hasContent(m) == Truthy(m.text) \/ Truthy(m.media) \/ m.sticker

PayloadKinds == {"poll", "geo", "contact", "venue", "webpage", "webpage_photo"}
FileKinds == {"photo", "video", "audio", "voice", "document"}

\* getMediaType / getMediaPath of utils/helper: the policy tokens of a message
getMediaType(m) ==
  CASE m.media = "photo" -> "image"
    [] m.media = "webpage_photo" -> "webpage"
    [] OTHER -> m.media
getExtension(m) ==
  CASE m.media = "photo" -> "jpeg"
    [] m.media = "video" -> "mp4"
    [] m.media = "audio" -> "mp3"
    [] m.media = "voice" -> "ogg"
    [] m.media = "document" -> "pdf"
    [] OTHER -> "none"

\* the policy applied to every message with content
shouldProcessAllGated(m, policy) ==
  hasContent(m) /\ (getMediaType(m) \in policy \/ getExtension(m) \in policy
                      \/ "all" \in policy)
shouldProcess(m, policy) ==
  IF ~hasContent(m) THEN FALSE
  ELSE IF Truthy(m.text) /\ ~Truthy(m.media) THEN TRUE
  ELSE IF Truthy(m.media)
       THEN getMediaType(m) \in policy \/ getExtension(m) \in policy \/ "all" \in policy
  ELSE TRUE

(* ---- time ---------------------------------------------------------------- *)
\* ms of waiting elapse: every age grows, and an age of RATE_WINDOW or more
\* is no longer told apart. A wait counts at the length asked for (the random
\* extra of wait(), under 500 ms, is left out); the waits inside the pipelines
\* run side by side with the driver's and are not added, and the transport
\* answers at once.
AgeOf(a, ms) == Min(a + ms, RATE_WINDOW)
AgedCalls(ages, ms) ==
  SelectSeq([k \in 1..Len(ages) |-> AgeOf(ages[k], ms)], LAMBDA a : a < RATE_WINDOW)

(* ---- rate governor: checkRateLimit --------------------------------------- *)
ShouldCool(count, since) == count > RATE_THRESHOLD /\ since < RATE_WINDOW

(* ---- retryWithBackoff ----------------------------------------------------- *)
\* an off-by-one in the test for the last attempt
IsLastAttemptOffByOne(i) == i = MAX_RETRIES
IsLastAttempt(i) == i = MAX_RETRIES - 1
BackoffDelay(i) == BACKOFF_BASE * Pow2(i)

(* ---- flood-wait recognition in downloadChannel's catch ------------------- *)
IsFloodWait(e) == e.flood
FloodWaitMs(e) == (IF e.hint = Undefined THEN DEFAULT_FLOOD_SECONDS ELSE e.hint) * 1000

(* ---- checkpoint store (utils/file-helper) -------------------------------- *)
getLastSelection == lastSelection
updateLastSelection(fields) ==
  [k \in DOMAIN lastSelection |->
     IF k \in DOMAIN fields THEN fields[k] ELSE lastSelection[k]]
\* Number(x): undefined is NaN, and NaN differs from everything, itself included
NumbersDiffer(a, b) == a = Undefined \/ b = Undefined \/ a # b

(* ---- initial state: a fresh process over a fresh store ------------------- *)
\* The runs explored: an empty channel under a long run of transport failures,
\* a channel read in one page under one failure, a small channel read in
\* pages of two under failures and restarts, the same channel uploaded,
\* a channel of every message kind under every policy, and a channel that is
\* read, left for another and read again.
Answers(ups, policies, seconds) ==
  [upload : ups, policy : policies, first : {1}, second : seconds, target : {TRUE}]

EmptyRuns ==
  [numMsgs : {0}, layout : {"media"}, pageCap : {1},
   answers : Answers({FALSE}, {{"all"}}, {1}),
   faultsLeft : {MaxFloods}, restartsLeft : {0}]
OnePageRuns ==
  [numMsgs : {MaxMsgs}, layout : Layouts, pageCap : {MaxMsgs},
   answers : Answers({FALSE}, {{"all"}}, {1}),
   faultsLeft : {1}, restartsLeft : {0}]
SmallRuns ==
  [numMsgs : {SmallMsgs}, layout : Layouts, pageCap : {2},
   answers : Answers({FALSE}, Policies, Channels),
   faultsLeft : {MaxFaults}, restartsLeft : {MaxRestarts}]
UploadRuns ==
  [numMsgs : {SmallMsgs}, layout : Layouts, pageCap : {2},
   answers : Answers({TRUE}, {{"all"}}, {1}),
   faultsLeft : {UploadFaults}, restartsLeft : {0}]
KindRuns ==
  [numMsgs : {KindMsgs}, layout : KindLayouts \cup {"mixed"}, pageCap : {KindMsgs},
   answers : Answers(BOOLEAN, KindPolicies, {1}),
   faultsLeft : {1}, restartsLeft : {0}]
\* upload mode is chosen and no target channel comes back from the prompt
NoTargetRuns ==
  [numMsgs : {SmallMsgs}, layout : Layouts, pageCap : {2},
   answers : {[a EXCEPT !.target = FALSE] : a \in Answers({TRUE}, {{"all"}}, {1})},
   faultsLeft : {1}, restartsLeft : {0}]
RerunRuns ==
  [numMsgs : {RerunMsgs}, layout : {"media", "stickers"}, pageCap : {RerunMsgs},
   answers : Answers({FALSE}, {{"all"}}, {2}),
   faultsLeft : {0}, restartsLeft : {MaxRestarts + 1}]
Runs ==
  EmptyRuns \cup OnePageRuns \cup SmallRuns \cup UploadRuns \cup KindRuns
    \cup NoTargetRuns \cup RerunRuns

Init ==
  /\ \E r \in Runs :
       /\ numMsgs = r.numMsgs /\ layout = r.layout /\ pageCap = r.pageCap
       /\ answers = r.answers /\ faultsLeft = r.faultsLeft
       /\ restartsLeft = r.restartsLeft
  /\ lastSelection = [channelId |-> Undefined, messageOffsetId |-> Undefined]
  /\ transcript = [c \in Channels |-> <<>>]
  /\ disk = [c \in Channels |-> {}]
  /\ sidecars = [c \in Channels |-> {}]
  /\ uploadMode = FALSE /\ targetChannelId = Undefined /\ channelId = Undefined
  /\ downloadableFiles = {}
  /\ requestCount = 0 /\ sinceLast = RATE_WINDOW
  /\ totalDownloaded = 0 /\ totalUploaded = 0
  /\ totalMessages = 0 /\ totalProcessedMessages = 0
  /\ hpc = "start" /\ pc = "idle" /\ stack = <<>>
  /\ op = Nil /\ attempt = 0 /\ err = NoErr /\ waitMs = 0
  /\ messages = <<>> /\ toProcess = <<>> /\ batch = 0 /\ pipes = <<>>
  /\ callAges = <<>> /\ fetchOffset = Undefined /\ calls = 0 /\ admits = 0 /\ cools = 0
  /\ finished = [c \in Channels |-> {}]
  /\ recorded = <<>>

(* ---- downloadChannel entry: the frame is pushed and the page fetch goes ---
   ---- under retryWithBackoff ------------------------------------------------ *)
EnterDownloadChannel(offset, site) ==
  /\ stack' = Append(stack, Frame(offset, site))
  /\ pc' = "admit" /\ op' = "fetch" /\ attempt' = 0
  /\ calls' = 0 /\ admits' = 0
  /\ messages' = <<>> /\ toProcess' = <<>> /\ batch' = 0 /\ pipes' = <<>>

(* ---- handle: configureDownload, then downloadChannel ---------------------- *)
\* the offset of the checkpoint taken whatever channel it belongs to
ConfiguredOffsetKept(sel, c) ==
  IF sel.messageOffsetId = Undefined THEN 0 ELSE sel.messageOffsetId
ConfiguredOffset(sel, c) ==
  IF NumbersDiffer(sel.channelId, c) THEN 0
  ELSE IF sel.messageOffsetId = Undefined THEN 0 ELSE sel.messageOffsetId

Configure ==
  /\ hpc = "start"
  /\ LET c == answers.first
         up == answers.upload
         policy == answers.policy
     IN /\ channelId' = c
        /\ uploadMode' = up
        /\ targetChannelId' = IF up /\ answers.target
                               THEN CHOOSE t \in Channels : t # c
                               ELSE Undefined
        /\ downloadableFiles' = policy
        /\ lastSelection' = updateLastSelection(
             [messageOffsetId |-> ConfiguredOffset(getLastSelection, c), channelId |-> c])
        /\ EnterDownloadChannel(ConfiguredOffset(getLastSelection, c), "handle")
  /\ hpc' = "run"
  /\ UNCHANGED <<world, transcript, disk, sidecars, governor, counters, err,
                 waitMs, fetchOffset, finished, recorded>>

(* ---- checkRateLimit, then fn() -------------------------------------------- *)
\* fn() is called: the transport request is in flight
InvokeFn ==
  /\ pc' = "call"
  /\ calls' = calls + 1
  /\ admits' = admits + 1
  /\ fetchOffset' = IF op = "fetch" THEN Top.offsetMsgId ELSE fetchOffset

CheckRateLimit ==
  /\ pc = "admit"
  /\ ~ShouldCool(requestCount, sinceLast)
  /\ sinceLast' = 0
  /\ requestCount' = requestCount + 1
  /\ callAges' = <<0>> \o callAges
  /\ cools' = 0
  /\ InvokeFn
  /\ UNCHANGED <<world, store, config, counters, hpc, stack, op, attempt, err,
                 waitMs, page, finished, recorded>>

CheckRateLimitCooling ==
  /\ pc = "admit"
  /\ ShouldCool(requestCount, sinceLast)
  /\ pc' = "cooling" /\ waitMs' = COOLING_WAIT
  /\ callAges' = <<0>> \o callAges
  /\ cools' = 1
  /\ UNCHANGED <<world, store, config, requestCount, sinceLast, counters, hpc,
                 stack, op, attempt, err, page, fetchOffset, calls, admits, finished, recorded>>

\* the cooling wait is over: the counter restarts, lastRequestTime is the
\* `now` read before the wait
CountKeptAfterCooling == requestCount + 1
CountAfterCooling == 0 + 1

CoolingDone ==
  /\ pc = "cooling"
  /\ requestCount' = CountAfterCooling
  /\ sinceLast' = AgeOf(0, waitMs)
  /\ callAges' = AgedCalls(callAges, waitMs)
  /\ waitMs' = 0
  /\ InvokeFn
  /\ UNCHANGED <<world, store, config, counters, hpc, stack, op, attempt, err,
                 page, cools, finished, recorded>>

(* ---- retryWithBackoff's catch ---------------------------------------------- *)
RetryCatch(e) ==
  /\ err' = e
  /\ IF IsLastAttempt(attempt)
     THEN pc' = "throw" /\ waitMs' = waitMs
     ELSE pc' = "backoff" /\ waitMs' = BackoffDelay(attempt)

TransportFails ==
  /\ pc = "call"
  /\ faultsLeft > 0
  /\ faultsLeft' = faultsLeft - 1
  /\ \E e \in TransportErrors : RetryCatch(e)
  /\ UNCHANGED <<numMsgs, layout, pageCap, answers, restartsLeft, store, config, governor, counters,
                 hpc, stack, op, attempt, page, history>>

BackoffDone ==
  /\ pc = "backoff"
  /\ attempt' = attempt + 1
  /\ pc' = "admit"
  /\ sinceLast' = AgeOf(sinceLast, waitMs)
  /\ callAges' = AgedCalls(callAges, waitMs)
  /\ waitMs' = 0
  /\ UNCHANGED <<world, store, config, requestCount, cools, counters, hpc, stack,
                 op, err, page, history>>

(* ---- transport: getMessages / getMessageDetail ---------------------------- *)
\* the page after `offset`: the next ids in ascending order, at least one
\* while any remain and at most `limit`
PageSizes(offset, limit) ==
  IF offset >= numMsgs THEN {0} ELSE {Min(Min(numMsgs - offset, limit), pageCap)}

\* the test for the end of the channel never true
PageIsEmptyNever(msgs) == FALSE
\* !messages.length
PageIsEmpty(msgs) == Len(msgs) = 0

FetchReturns ==
  /\ pc = "call" /\ op = "fetch"
  /\ \E n \in PageSizes(Top.offsetMsgId, MESSAGE_LIMIT) :
       /\ messages' = [k \in 1..n |-> Top.offsetMsgId + k]
       /\ IF PageIsEmpty([k \in 1..n |-> Top.offsetMsgId + k])
          THEN pc' = "return" /\ op' = op /\ calls' = calls /\ admits' = admits
          ELSE pc' = "admit" /\ op' = "detail" /\ calls' = 0 /\ admits' = 0
  /\ attempt' = 0
  /\ UNCHANGED <<world, store, config, governor, counters, hpc, stack, err, waitMs,
                 toProcess, batch, pipes, fetchOffset, finished, recorded>>

(* ---- processMessage -------------------------------------------------------- *)
\* One processMessage invocation: pc is the await it stands at; mediaPath tells
\* whether the local variable holds a path; the rest records what it has done:
\* dl the downloadMessage calls that returned and paths what they returned,
\* transfers the client.downloadMedia calls, forward and send the state of
\* client.forwardMessages and client.sendMessage ("none", "sent", "ok",
\* "failed"), local whether the upload found the file at mediaPath, sentFile
\* and sentBody the options of the send, uploaded what uploadMessage returned.
Pipe(id, at, exists) ==
  [id |-> id, pc |-> at, fileExists |-> exists, mediaPath |-> FALSE, counted |-> 0,
   dl |-> 0, paths |-> <<>>, transfers |-> 0,
   forward |-> "none", send |-> "none", local |-> FALSE,
   sentFile |-> "none", sentBody |-> "none", uploaded |-> FALSE]

\* the file on disk is not looked for
EnterDownloadUnchecked(p, files) == [p EXCEPT !.pc = "download", !.fileExists = FALSE]
\* downloadMessage is called: checkFileExist is read, the request goes out
EnterDownload(p, files) == [p EXCEPT !.pc = "download", !.fileExists = p.id \in files]

(* ---- uploadMessageToChannel: the options of client.sendMessage ------------- *)
\* the original attachment reference taken after a failed forward
ReferenceOf(m) == IF m.media \in FileKinds THEN "ref" ELSE "none"
\* a structured payload is sent as a summary and the file option is deleted
SendOptions(p, m, file) ==
  [p EXCEPT !.pc = "upload", !.send = "sent", !.local = (file = "local"),
            !.sentFile = IF m.media \in PayloadKinds THEN "none" ELSE file,
            !.sentBody = IF m.media \in PayloadKinds THEN "summary" ELSE "caption"]

\* a local file is missing: the send goes out without waiting for a forward
UploadFirstCallSendsAtOnce(p, m, files) ==
  IF Truthy(m.media)
  THEN SendOptions(p, m, IF p.mediaPath /\ p.id \in files THEN "local" ELSE ReferenceOf(m))
  ELSE IF m.sticker THEN SendOptions(p, m, "sticker")
  ELSE IF m.text = "none" THEN [p EXCEPT !.pc = "upload_wait"]
  ELSE SendOptions(p, m, "none")
\* uploadMessageToChannel up to its first await: a forward or a send goes out
UploadFirstCall(p, m, files) ==
  IF Truthy(m.media)
  THEN IF p.mediaPath /\ p.id \in files
       THEN SendOptions(p, m, "local")
       ELSE [p EXCEPT !.pc = "forward", !.forward = "sent"]
  ELSE IF m.sticker THEN SendOptions(p, m, "sticker")
  ELSE IF m.text = "none" THEN [p EXCEPT !.pc = "upload_wait"]
  ELSE SendOptions(p, m, "none")

\* the guard on upload mode and target left out
EnterUploadUnguarded(p, m, files, upload, target) == UploadFirstCall(p, m, files)
\* uploadMessage is called
EnterUpload(p, m, files, upload, target) ==
  IF ~upload \/ target = Undefined
  THEN [p EXCEPT !.pc = "upload_wait"]
  ELSE UploadFirstCall(p, m, files)

\* the segment of processMessage that runs inside the call, up to its first await
StartPipe(m, files, upload, target) ==
  IF m.text = "bad" THEN Pipe(m.id, "caught", FALSE)
  ELSE IF Truthy(m.media) \/ m.sticker THEN EnterDownload(Pipe(m.id, "download", FALSE), files)
  ELSE IF upload /\ Truthy(m.text)
       THEN EnterUpload(Pipe(m.id, "upload", FALSE), m, files, upload, target)
  ELSE [Pipe(m.id, "done", FALSE) EXCEPT !.counted = 1]

Returned(p) == p.pc \in {"done", "caught"}
InFlight == {k \in 1..Len(pipes) : ~Returned(pipes[k])}
SumCounted(ps) == Cardinality({k \in 1..Len(ps) : ps[k].counted = 1})
ReturnedIds(ps) == {ps[k].id : k \in {j \in 1..Len(ps) : Returned(ps[j])}}

(* ---- batch scheduler ------------------------------------------------------- *)
\* index of the chunk (0-based) the k-th filtered message (1-based) is put in
ChunkOf(k) == (k - 1) \div MAX_PARALLEL_PROCESS
\* the last, shorter chunk left out of the count
NumChunksFloor(n) == n \div MAX_PARALLEL_PROCESS
NumChunks(n) == (n + MAX_PARALLEL_PROCESS - 1) \div MAX_PARALLEL_PROCESS
\* the pipelines the creation loop has started when it ends, of n filtered messages
StartedBySpawn(n) == 1..n

(* ---- recordMessages, updateLastSelection, showProgress, line 385 ----------- *)
\* the first id of the page taken for the last
NextOffsetFirst(msgs) == msgs[1]
\* the length of the page taken for its last id
NextOffsetLength(msgs) == Len(msgs)
NextOffset(msgs) == msgs[Len(msgs)]

\* only the messages that passed the filter are recorded
recordMessagesFiltered(details) ==
  SelectSeq(details, LAMBDA id : shouldProcess(MsgAt(layout, id), downloadableFiles))
\* recordMessages: one record for every message it is given, in their order
recordMessages(details) == [k \in 1..Len(details) |-> details[k]]

\* showProgress: the percentage it reports
progressPercentage ==
  IF totalMessages > 0
  THEN (200 * totalProcessedMessages + totalMessages) \div (2 * totalMessages)
  ELSE 0

RecordAndCheckpoint(msgs) ==
  /\ transcript' = [transcript EXCEPT ![channelId] = @ \o recordMessages(msgs)]
  /\ recorded' = recorded \o recordMessages(msgs)
  /\ lastSelection' = updateLastSelection([messageOffsetId |-> NextOffset(msgs)])
  /\ pc' = "page_wait" /\ waitMs' = RATE_LIMIT_DELAY

DetailReturns ==
  /\ pc = "call" /\ op = "detail"
  /\ LET keep == SelectSeq(messages,
                   LAMBDA id : shouldProcess(MsgAt(layout, id), downloadableFiles))
         started == [k \in StartedBySpawn(Len(keep)) |->
                       StartPipe(MsgAt(layout, keep[k]), disk[channelId],
                                 uploadMode, targetChannelId)]
     IN /\ toProcess' = keep
        /\ pipes' = started
        /\ totalProcessedMessages' = totalProcessedMessages + SumCounted(started)
        /\ finished' = [finished EXCEPT ![channelId] = @ \cup ReturnedIds(started)]
        /\ batch' = 0
        /\ IF Len(keep) = 0
           THEN RecordAndCheckpoint(messages) /\ UNCHANGED <<disk, sidecars>>
           ELSE pc' = "await" /\ waitMs' = waitMs /\ UNCHANGED <<store, recorded>>
  /\ UNCHANGED <<world, config, governor, totalDownloaded, totalUploaded,
                 totalMessages, hpc, stack, op, attempt, err, messages,
                 fetchOffset, calls, admits>>

\* processMessage's last statement before it returns normally
Finish(k, p) ==
  /\ pipes' = [pipes EXCEPT ![k] = [p EXCEPT !.pc = "done", !.counted = @ + 1]]
  /\ totalProcessedMessages' = totalProcessedMessages + 1
  /\ finished' = [finished EXCEPT ![channelId] = @ \cup {p.id}]
  /\ recorded' = recorded

\* the counter incremented whatever downloadMessageMedia returned
CountDownloadAlways(result) == totalDownloaded' = totalDownloaded + 1
\* downloadMessage counts a truthy result of downloadMessageMedia
CountDownload(result) ==
  totalDownloaded' = IF result THEN totalDownloaded + 1 ELSE totalDownloaded

\* downloadMessage returns what downloadMessageMedia made of the message: null
\* without media, the path when the file was there, the path after a record
\* was written or the bytes were transferred, null when the transfer failed
DownloadDone(k) ==
  /\ k \in 1..Len(pipes) /\ pipes[k].pc = "download"
  /\ LET p == pipes[k]
         m == MsgAt(layout, p.id)
         path == [p EXCEPT !.pc = "download_wait", !.dl = @ + 1,
                           !.mediaPath = TRUE, !.paths = Append(@, "path")]
         null == [p EXCEPT !.pc = "download_wait", !.dl = @ + 1,
                           !.mediaPath = FALSE, !.paths = Append(@, "null")]
         transfer == m.media \in FileKinds \cup {"webpage_photo"}
     IN \/ /\ ~Truthy(m.media)
           /\ pipes' = [pipes EXCEPT ![k] = null]
           /\ UNCHANGED <<disk, sidecars, totalDownloaded, faultsLeft>>
        \/ /\ Truthy(m.media) /\ p.fileExists
           /\ pipes' = [pipes EXCEPT ![k] = path]
           /\ UNCHANGED <<disk, sidecars, totalDownloaded, faultsLeft>>
        \/ /\ Truthy(m.media) /\ ~p.fileExists /\ ~transfer
           /\ pipes' = [pipes EXCEPT ![k] = path]
           /\ sidecars' = [sidecars EXCEPT ![channelId] = @ \cup {p.id}]
           /\ CountDownload(TRUE)
           /\ UNCHANGED <<disk, faultsLeft>>
        \/ /\ Truthy(m.media) /\ ~p.fileExists /\ transfer
           /\ pipes' = [pipes EXCEPT ![k] = [path EXCEPT !.transfers = @ + 1]]
           /\ IF m.media = "webpage_photo"
              THEN /\ sidecars' = [sidecars EXCEPT ![channelId] = @ \cup {p.id}]
                   /\ disk' = disk
              ELSE /\ disk' = [disk EXCEPT ![channelId] = @ \cup {p.id}]
                   /\ sidecars' = sidecars
           /\ CountDownload(TRUE)
           /\ UNCHANGED faultsLeft
        \/ /\ Truthy(m.media) /\ ~p.fileExists /\ transfer
           /\ faultsLeft > 0
           /\ faultsLeft' = faultsLeft - 1
           /\ pipes' = [pipes EXCEPT ![k] = [null EXCEPT !.transfers = @ + 1]]
           /\ sidecars' = IF m.media = "webpage_photo"
                          THEN [sidecars EXCEPT ![channelId] = @ \cup {p.id}]
                          ELSE sidecars
           /\ CountDownload(FALSE)
           /\ disk' = disk
  /\ UNCHANGED <<numMsgs, layout, pageCap, answers, restartsLeft, lastSelection,
                 transcript, config,
                 governor, totalUploaded, totalMessages, totalProcessedMessages,
                 control, messages, toProcess, batch, history>>

\* wait(DOWNLOAD_DELAY) is over: the sticker block downloads again, then
\* upload when upload mode is on, else finish
DownloadWaitDone(k) ==
  /\ k \in 1..Len(pipes) /\ pipes[k].pc = "download_wait"
  /\ LET p == pipes[k]
         m == MsgAt(layout, p.id)
     IN IF Truthy(m.media) /\ m.sticker /\ p.dl = 1
        THEN /\ pipes' = [pipes EXCEPT ![k] = EnterDownload(p, disk[channelId])]
             /\ UNCHANGED <<totalProcessedMessages, finished, recorded>>
        ELSE IF uploadMode
        THEN /\ pipes' = [pipes EXCEPT ![k] =
                            EnterUpload(p, m, disk[channelId], uploadMode, targetChannelId)]
             /\ UNCHANGED <<totalProcessedMessages, finished, recorded>>
        ELSE Finish(k, p)
  /\ UNCHANGED <<world, store, config, governor, totalDownloaded, totalUploaded,
                 totalMessages, control, messages, toProcess, batch,
                 fetchOffset, calls, admits>>

\* uploadMessage after a truthy result: the counter, then the local file is
\* removed when mediaPath names one; an unlink that throws is only logged
UploadSucceeded(p) ==
  /\ totalUploaded' = totalUploaded + 1
  /\ \/ /\ disk' = IF p.mediaPath
                   THEN [disk EXCEPT ![channelId] = @ \ {p.id}]
                   ELSE disk
        /\ UNCHANGED faultsLeft
     \/ /\ p.mediaPath /\ p.id \in disk[channelId]
        /\ faultsLeft > 0
        /\ faultsLeft' = faultsLeft - 1
        /\ disk' = disk

\* uploadMessage's catch: the error is logged and false is returned
UploadFailedCleansUp(p) ==
  /\ totalUploaded' = totalUploaded
  /\ disk' = [disk EXCEPT ![channelId] = @ \ {p.id}]
UploadFailed(p) == UNCHANGED <<totalUploaded, disk>>

\* client.forwardMessages returns: its result is the upload's result, or it
\* throws and the message is sent anew
ForwardDone(k) ==
  /\ k \in 1..Len(pipes) /\ pipes[k].pc = "forward"
  /\ LET p == pipes[k]
         m == MsgAt(layout, p.id)
     IN \/ /\ pipes' = [pipes EXCEPT ![k] =
                          [p EXCEPT !.pc = "upload_wait", !.forward = "ok",
                                    !.uploaded = TRUE]]
           /\ UploadSucceeded(p)
        \/ /\ faultsLeft > 0
           /\ faultsLeft' = faultsLeft - 1
           /\ pipes' = [pipes EXCEPT ![k] =
                          SendOptions([p EXCEPT !.forward = "failed"], m, ReferenceOf(m))]
           /\ UNCHANGED <<totalUploaded, disk>>
  /\ UNCHANGED <<numMsgs, layout, pageCap, answers, restartsLeft, lastSelection,
                 transcript, sidecars, config,
                 governor, totalDownloaded, totalMessages, totalProcessedMessages,
                 control, messages, toProcess, batch, history>>

\* client.sendMessage returns: uploadMessage returns true, or false when it threw
UploadDone(k) ==
  /\ k \in 1..Len(pipes) /\ pipes[k].pc = "upload"
  /\ LET p == pipes[k]
     IN \/ /\ pipes' = [pipes EXCEPT ![k] =
                          [p EXCEPT !.pc = "upload_wait", !.send = "ok",
                                    !.uploaded = TRUE]]
           /\ UploadSucceeded(p)
        \/ /\ faultsLeft > 0
           /\ faultsLeft' = faultsLeft - 1
           /\ pipes' = [pipes EXCEPT ![k] =
                          [p EXCEPT !.pc = "upload_wait", !.send = "failed"]]
           /\ UploadFailed(p)
  /\ UNCHANGED <<numMsgs, layout, pageCap, answers, restartsLeft, lastSelection,
                 transcript, sidecars, config,
                 governor, totalDownloaded, totalMessages, totalProcessedMessages,
                 control, messages, toProcess, batch, history>>

UploadWaitDone(k) ==
  /\ k \in 1..Len(pipes) /\ pipes[k].pc = "upload_wait"
  /\ Finish(k, pipes[k])
  /\ UNCHANGED <<world, store, config, governor, totalDownloaded, totalUploaded,
                 totalMessages, control, messages, toProcess, batch,
                 fetchOffset, calls, admits>>

(* ---- the loop awaiting processPromises[i] --------------------------------- *)
\* the loop going on without awaiting the chunk
ChunkSettledUnawaited(i) == TRUE
ChunkSettled(i) ==
  \A k \in 1..Len(pipes) : ChunkOf(k) = i => Returned(pipes[k])

BatchDone ==
  /\ pc = "await"
  /\ ChunkSettled(batch)
  /\ IF batch < NumChunks(Len(toProcess)) - 1
     THEN /\ pc' = "chunk_wait" /\ waitMs' = RATE_LIMIT_DELAY
          /\ UNCHANGED <<store, recorded>>
     ELSE RecordAndCheckpoint(messages) /\ UNCHANGED <<disk, sidecars>>
  /\ UNCHANGED <<world, config, governor, counters, hpc, stack, op, attempt, err,
                 page, fetchOffset, calls, admits, finished>>

ChunkWaitDone ==
  /\ pc = "chunk_wait"
  /\ batch' = batch + 1
  /\ pc' = "await"
  /\ sinceLast' = AgeOf(sinceLast, waitMs)
  /\ callAges' = AgedCalls(callAges, waitMs)
  /\ waitMs' = 0
  /\ UNCHANGED <<world, store, config, requestCount, cools, counters, hpc, stack,
                 op, attempt, err, messages, toProcess, pipes, history>>

\* line 385 is over: downloadChannel calls itself for the next page
PageWaitDone ==
  /\ pc = "page_wait"
  /\ EnterDownloadChannel(NextOffset(messages), "try")
  /\ sinceLast' = AgeOf(sinceLast, waitMs)
  /\ callAges' = AgedCalls(callAges, waitMs)
  /\ waitMs' = 0
  /\ UNCHANGED <<world, store, config, requestCount, cools, counters, hpc, err,
                 fetchOffset, finished, recorded>>

(* ---- downloadChannel's catch ---------------------------------------------- *)
CatchFloodWait ==
  /\ pc = "throw"
  /\ IsFloodWait(err)
  /\ pc' = "flood_wait" /\ waitMs' = FloodWaitMs(err)
  /\ UNCHANGED <<world, store, config, governor, counters, hpc, stack, op, attempt,
                 err, page, history>>

CatchRethrow ==
  /\ pc = "throw"
  /\ ~IsFloodWait(err)
  /\ pc' = "raise"
  /\ UNCHANGED <<world, store, config, governor, counters, hpc, stack, op, attempt,
                 err, waitMs, page, history>>

\* the handler going on from the page it had fetched
RetryOffsetAdvanced ==
  IF Len(messages) > 0 THEN messages[Len(messages)] ELSE Top.offsetMsgId
\* the handler starting over from the offset handle began with
RetryOffsetOutermost == stack[1].offsetMsgId
\* the offset the flood-wait handler calls downloadChannel with again
RetryOffset == Top.offsetMsgId

FloodWaitDone ==
  /\ pc = "flood_wait"
  /\ EnterDownloadChannel(RetryOffset, "catch")
  /\ sinceLast' = AgeOf(sinceLast, waitMs)
  /\ callAges' = AgedCalls(callAges, waitMs)
  /\ waitMs' = 0
  /\ err' = NoErr
  /\ UNCHANGED <<world, store, config, requestCount, cools, counters, hpc,
                 fetchOffset, finished, recorded>>

(* ---- an invocation ends: its caller goes on -------------------------------- *)
\* the innermost invocation throws err to where it was called from
Propagate ==
  /\ pc = "raise"
  /\ stack' = SubSeq(stack, 1, Len(stack) - 1)
  /\ CASE Top.site = "try"   -> pc' = "throw" /\ UNCHANGED <<hpc, waitMs>>
       [] Top.site = "catch" -> pc' = "raise" /\ UNCHANGED <<hpc, waitMs>>
       [] OTHER              -> pc' = "idle" /\ hpc' = "cooldown"
                                /\ waitMs' = HANDLER_COOLDOWN
  /\ UNCHANGED <<world, store, config, governor, counters, op, attempt, err,
                 page, history>>

\* the innermost invocation returns: a caller in its try or catch returns too
Return ==
  /\ pc = "return"
  /\ stack' = SubSeq(stack, 1, Len(stack) - 1)
  /\ IF Top.site \in {"try", "catch"}
     THEN pc' = "return" /\ hpc' = hpc
     ELSE pc' = "idle" /\ hpc' = "exited"
  /\ UNCHANGED <<world, store, config, governor, counters, op, attempt, err,
                 waitMs, page, history>>

(* ---- handle's catch and finally --------------------------------------------- *)
CooldownDone ==
  /\ hpc = "cooldown"
  /\ hpc' = "exited"
  /\ waitMs' = 0
  /\ UNCHANGED <<world, store, config, governor, counters, pc, stack, op, attempt,
                 err, page, history>>

\* the program is started again: a new DownloadChannel over the same store
Restart ==
  /\ hpc = "exited"
  /\ restartsLeft > 0
  /\ restartsLeft' = restartsLeft - 1
  /\ answers' = [answers EXCEPT !.first = answers.second, !.second = answers.first]
  /\ uploadMode' = FALSE /\ targetChannelId' = Undefined /\ channelId' = Undefined
  /\ downloadableFiles' = {}
  /\ requestCount' = 0 /\ sinceLast' = RATE_WINDOW
  /\ totalDownloaded' = 0 /\ totalUploaded' = 0
  /\ totalMessages' = 0 /\ totalProcessedMessages' = 0
  /\ hpc' = "start" /\ pc' = "idle" /\ stack' = <<>>
  /\ op' = Nil /\ attempt' = 0 /\ err' = NoErr /\ waitMs' = 0
  /\ messages' = <<>> /\ toProcess' = <<>> /\ batch' = 0 /\ pipes' = <<>>
  /\ callAges' = <<>> /\ fetchOffset' = Undefined /\ calls' = 0 /\ admits' = 0
  /\ cools' = 0
  /\ recorded' = <<>>
  /\ UNCHANGED <<numMsgs, layout, pageCap, faultsLeft, store, finished>>

Next ==
  \/ Configure
  \/ CheckRateLimit
  \/ CheckRateLimitCooling
  \/ CoolingDone
  \/ TransportFails
  \/ BackoffDone
  \/ FetchReturns
  \/ DetailReturns
  \/ \E k \in 1..Len(pipes) : DownloadDone(k)
  \/ \E k \in 1..Len(pipes) : DownloadWaitDone(k)
  \/ \E k \in 1..Len(pipes) : ForwardDone(k)
  \/ \E k \in 1..Len(pipes) : UploadDone(k)
  \/ \E k \in 1..Len(pipes) : UploadWaitDone(k)
  \/ BatchDone
  \/ ChunkWaitDone
  \/ PageWaitDone
  \/ CatchFloodWait
  \/ CatchRethrow
  \/ FloodWaitDone
  \/ Propagate
  \/ Return
  \/ CooldownDone
  \/ Restart

Spec == Init /\ [][Next]_vars

(* ---- runs over an empty channel, with the timers and the event loop fair --- *)
InitEmpty == Init /\ numMsgs = 0

NextEmpty ==
  \/ Configure
  \/ CheckRateLimit
  \/ CheckRateLimitCooling
  \/ CoolingDone
  \/ TransportFails
  \/ BackoffDone
  \/ FetchReturns
  \/ CatchFloodWait
  \/ CatchRethrow
  \/ FloodWaitDone
  \/ Propagate
  \/ Return
  \/ CooldownDone

FairEmptySpec ==
  /\ InitEmpty /\ [][NextEmpty]_vars
  /\ WF_vars(CheckRateLimit)
  /\ WF_vars(CheckRateLimitCooling)
  /\ WF_vars(CoolingDone)

(* ---- one run of the program to its end, the event loop fair: every timer --
   ---- fires and every transport call is answered ---------------------------- *)
InitRun == Init /\ restartsLeft = 0 /\ layout \in Layouts

NextRun ==
  \/ Configure
  \/ CheckRateLimit
  \/ CheckRateLimitCooling
  \/ CoolingDone
  \/ TransportFails
  \/ BackoffDone
  \/ FetchReturns
  \/ DetailReturns
  \/ \E k \in 1..Len(pipes) : DownloadDone(k)
  \/ \E k \in 1..Len(pipes) : DownloadWaitDone(k)
  \/ \E k \in 1..Len(pipes) : ForwardDone(k)
  \/ \E k \in 1..Len(pipes) : UploadDone(k)
  \/ \E k \in 1..Len(pipes) : UploadWaitDone(k)
  \/ BatchDone
  \/ ChunkWaitDone
  \/ PageWaitDone
  \/ CatchFloodWait
  \/ CatchRethrow
  \/ FloodWaitDone
  \/ Propagate
  \/ Return
  \/ CooldownDone

FairRunSpec == InitRun /\ [][NextRun]_vars /\ WF_vars(NextRun)

(* ======================= properties ========================================= *)
Range(seq) == {seq[k] : k \in 1..Len(seq)}
MaxOf(set) == CHOOSE m \in set : \A n \in set : n <= m

\* C1: at every point of a page, the pipelines started and not yet returned
\* are at most MAX_PARALLEL_PROCESS.
C1_InFlightWithinWidth == Cardinality(InFlight) <= MAX_PARALLEL_PROCESS

\* C2: no pipeline of chunk N+1 has started while a pipeline of chunk N has
\* not returned.
C2_ChunksInTurn ==
  \A j \in 1..Len(pipes), k \in 1..Len(pipes) :
    ChunkOf(k) = ChunkOf(j) + 1 => Returned(pipes[j])

\* C3: a page fetch that failed with a flood-wait error carrying hint h is
\* followed by one wait of h seconds, never by a backoff sleep of the retry
\* wrapper, and the fetch is then made again with the same offset.
C3_FloodWaitBypassesBackoff ==
  (op = "fetch" /\ IsFloodWait(err) /\ err.hint # Undefined
     /\ pc \in {"backoff", "throw", "flood_wait"})
  => /\ pc # "backoff"
     /\ pc = "flood_wait" => waitMs = err.hint * 1000
     /\ Top.offsetMsgId = fetchOffset

\* C4: a flood-wait error caught by downloadChannel makes it call itself with
\* the offset it was called with (the offset of its own page fetch); the
\* checkpoint and the progress counters do not change while it is handled;
\* and no flood-wait error leaves downloadChannel or reaches handle's catch.
C4_FloodWaitRetriesSamePage ==
  /\ [][(pc = "flood_wait" /\ pc' # "flood_wait")
          => /\ pc' = "admit" /\ op' = "fetch"
             /\ Len(stack') = Len(stack) + 1
             /\ stack'[Len(stack')].offsetMsgId = stack[Len(stack)].offsetMsgId
             /\ stack'[Len(stack')].offsetMsgId = fetchOffset]_vars
  /\ [][((pc = "throw" /\ IsFloodWait(err)) \/ pc = "flood_wait")
          => (lastSelection' = lastSelection /\ counters' = counters)]_vars
  /\ [](pc = "raise" => ~IsFloodWait(err))
  /\ [](hpc = "cooldown" => ~IsFloodWait(err))

\* C4 witness: on a later page the detail resolution has failed with a
\* flood-wait error and the wait of its hint is pending.
C4_Witness ==
  pc = "flood_wait" /\ op = "detail" /\ Len(stack) > 1 /\ Top.offsetMsgId > 0

\* C5: once a page is processed the persisted messageOffsetId is the greatest
\* id of the page and the next fetch is made with it; a process started again
\* on the channel of the checkpoint makes its first fetch with the persisted
\* offset and leaves the checkpoint as it is.
C5_CheckpointIsLastId ==
  /\ [](pc = "page_wait" => lastSelection.messageOffsetId = MaxOf(Range(messages)))
  /\ [][(pc = "page_wait" /\ pc' # "page_wait")
          => stack'[Len(stack')].offsetMsgId = MaxOf(Range(messages))]_vars
  /\ []((pc = "call" /\ op = "fetch") => fetchOffset = Top.offsetMsgId)
  /\ [][(hpc = "start" /\ hpc' = "run" /\ lastSelection.channelId = channelId')
          => /\ stack'[1].offsetMsgId = lastSelection.messageOffsetId
             /\ lastSelection' = lastSelection]_vars

\* C5 witness: a restarted process makes its first fetch from a checkpoint
\* that an earlier run left at the last id of a page.
C5_Witness ==
  /\ pc = "call" /\ op = "fetch" /\ Len(stack) = 1 /\ Top.site = "handle"
  /\ fetchOffset > 0 /\ fetchOffset = lastSelection.messageOffsetId

\* C6: every message of the checkpoint's channel up to the persisted offset
\* is in the transcript, and its pipeline has returned if it passed the filter.
C6_CheckpointCoversProcessedPages ==
  (lastSelection.channelId # Undefined /\ lastSelection.messageOffsetId # Undefined)
  => \A id \in 1..lastSelection.messageOffsetId :
       /\ id \in Range(transcript[lastSelection.channelId])
       /\ shouldProcess(MsgAt(layout, id), answers.policy)
            => id \in finished[lastSelection.channelId]

\* C6 witness: a fatal error is propagating out of downloadChannel after a
\* page was checkpointed and before the channel is exhausted.
C6_Witness ==
  /\ pc = "raise"
  /\ lastSelection.messageOffsetId > 0
  /\ lastSelection.messageOffsetId < numMsgs

\* C7: a pipeline that has returned, whatever failed in it, has incremented
\* the processed counter exactly once.
C7_ReturnedCountedOnce ==
  \A k \in 1..Len(pipes) : Returned(pipes[k]) => pipes[k].counted = 1

\* C8: retryWithBackoff invokes the operation at most MAX_RETRIES times, each
\* time after one checkRateLimit; after failed attempt i it sleeps
\* BACKOFF_BASE * 2^i unless that was the last attempt, whose error it throws
\* without sleeping.
C8_RetryBudget ==
  /\ calls <= MAX_RETRIES
  /\ pc = "call" => (admits = calls /\ calls = attempt + 1)
  /\ pc = "backoff" =>
       (calls < MAX_RETRIES /\ calls = attempt + 1
          /\ waitMs = BACKOFF_BASE * Pow2(calls - 1))
  /\ pc = "throw" => calls = MAX_RETRIES

\* C8 witness: the detail resolution has failed MAX_RETRIES times and the
\* last error is thrown.
C8_Witness == pc = "throw" /\ op = "detail" /\ calls = MAX_RETRIES /\ attempt = 2

\* C9: the cooling wait is entered only when more than RATE_THRESHOLD gated
\* calls lie within the last RATE_WINDOW.
C9_CoolingOnlyOnFullWindow == pc = "cooling" => Len(callAges) > RATE_THRESHOLD

\* C10: checkRateLimit always returns, after at most one cooling wait; when it
\* has cooled, it returns with requestCount = 1 and the next call does not cool.
C10_AdmitReturns ==
  /\ [](cools <= 1)
  /\ [][(pc = "cooling" /\ pc' # "cooling")
          => /\ pc' = "call"
             /\ requestCount' = 1
             /\ ~(requestCount' > RATE_THRESHOLD)]_vars
  /\ (pc = "admit") ~> (pc = "call")
  /\ (pc = "cooling") ~> (pc = "call")

\* C10 witness: a call is in flight that was admitted after a cooling wait.
C10_Witness == pc = "call" /\ cools = 1 /\ requestCount = 1

(* ---- C11 .. C20 ------------------------------------------------------------ *)
\* the page has been filtered: toProcess is what shouldProcess kept of it
Filtered == pc \in {"await", "chunk_wait", "page_wait"}
Kept(id) == id \in Range(toProcess)
PipeOf(k) == pipes[k]
MsgOf(k) == MsgAt(layout, pipes[k].id)

\* C11: a message that carries an attachment (a photo, video, audio, voice or
\* document, or a sticker), with or without text, is kept by shouldProcess
\* exactly when the policy enables its kind, its file extension or `all`.
C11_AttachmentsGatedByPolicy ==
  Filtered =>
    \A id \in Range(messages) :
      LET m == MsgAt(layout, id)
          kind == IF m.media \in FileKinds THEN getMediaType(m) ELSE "sticker"
          extension == IF m.media \in FileKinds THEN getExtension(m) ELSE "webp"
      IN (m.media \in FileKinds \/ m.sticker)
           => (Kept(id) <=> ({kind, extension, "all"} \cap downloadableFiles # {}))

\* C12: a message with text and no attachment is kept by shouldProcess under
\* every policy, one with every flag false included, and a message without
\* content is never kept.
C12_TextKeptEmptyDropped ==
  Filtered =>
    \A id \in Range(messages) :
      LET m == MsgAt(layout, id)
      IN /\ (m.text = "str" /\ m.media = "none" /\ ~m.sticker) => Kept(id)
         /\ (m.text = "none" /\ m.media = "none" /\ ~m.sticker) => ~Kept(id)

\* C12 witness: under the policy with every flag false a page is filtered that
\* holds a text message, which is kept, and a message without content, which
\* is dropped.
C12_Witness ==
  /\ Filtered /\ downloadableFiles = {}
  /\ \E id \in Range(messages) :
       MsgAt(layout, id).text = "str" /\ MsgAt(layout, id).media = "none" /\ Kept(id)
  /\ \E id \in Range(messages) : ~hasContent(MsgAt(layout, id)) /\ ~Kept(id)

\* C13: the upload of a message with a structured payload (poll, geo, contact,
\* venue, webpage) never forwards the original message; it makes one
\* sendMessage call, with a summary as body and no file.
C13_PayloadSentAsSummary ==
  \A k \in 1..Len(pipes) :
    MsgOf(k).media \in PayloadKinds =>
      /\ PipeOf(k).forward = "none"
      /\ PipeOf(k).send # "none" =>
           (PipeOf(k).sentFile = "none" /\ PipeOf(k).sentBody = "summary")
      /\ PipeOf(k).uploaded => PipeOf(k).send = "ok"

\* C14: the download of a poll, geo, contact, venue or webpage without preview
\* photo writes its record and returns the path without a call of
\* client.downloadMedia and without incrementing the downloaded counter.
C14_PayloadDownloadNotCounted ==
  [][\A k \in 1..Len(pipes) :
       (/\ k <= Len(pipes')
        /\ pipes[k].pc = "download" /\ pipes'[k].pc = "download_wait"
        /\ MsgOf(k).media \in PayloadKinds \ {"webpage_photo"})
       => /\ pipes[k].id \in sidecars'[channelId]
          /\ pipes'[k].mediaPath
          /\ pipes'[k].transfers = pipes[k].transfers
          /\ totalDownloaded' = totalDownloaded]_vars

\* C15: a download of a message whose file is on disk already, the first as
\* the second, makes no call of client.downloadMedia, returns the path and
\* leaves the downloaded counter and the file as they are.
C15_ExistingFileNotTransferred ==
  [][\A k \in 1..Len(pipes) :
       (/\ k <= Len(pipes')
        /\ pipes[k].pc = "download" /\ pipes'[k].pc = "download_wait"
        /\ Truthy(MsgOf(k).media)
        /\ pipes[k].id \in disk[channelId])
       => /\ pipes'[k].transfers = pipes[k].transfers
          /\ pipes'[k].mediaPath
          /\ pipes'[k].paths = Append(pipes[k].paths, "path")
          /\ totalDownloaded' = totalDownloaded
          /\ disk' = disk]_vars

\* C15 witness: a message was downloaded twice by its pipeline while its file
\* was on disk from an earlier run: both calls returned the path, no transfer.
C15_Witness ==
  \E k \in 1..Len(pipes) :
    /\ PipeOf(k).dl = 2 /\ PipeOf(k).transfers = 0
    /\ PipeOf(k).paths = <<"path", "path">>
    /\ totalDownloaded = 0

\* C16: configured with a channel other than the checkpoint's, the run makes
\* its first fetch with offset 0 and persists {channelId: B, messageOffsetId: 0};
\* configured with the checkpoint's channel it keeps the persisted offset.
C16_ChannelSwitchResetsOffset ==
  /\ [][(hpc = "start" /\ hpc' = "run")
          => IF lastSelection.channelId # channelId'
             THEN /\ stack'[1].offsetMsgId = 0
                  /\ lastSelection' = [channelId |-> channelId', messageOffsetId |-> 0]
             ELSE /\ stack'[1].offsetMsgId = lastSelection.messageOffsetId
                  /\ lastSelection' = lastSelection]_vars
  /\ []((pc = "call" /\ op = "fetch" /\ Len(stack) = 1 /\ Top.site = "handle")
          => fetchOffset = Top.offsetMsgId)

\* C16 witness: after channel 1 was read and checkpointed, the process started
\* on channel 2 makes its first fetch with offset 0.
C16_Witness ==
  /\ pc = "call" /\ op = "fetch" /\ Len(stack) = 1 /\ fetchOffset = 0
  /\ transcript[1] # <<>> /\ channelId = 2
  /\ lastSelection = [channelId |-> 2, messageOffsetId |-> 0]

\* C17: k filtered messages make ceil(k / W) chunks, contiguous and in input
\* order, each of W messages but the last, which has at most W; the delay
\* between chunks is waited ceil(k / W) - 1 times, never after the last chunk,
\* and not at all when k = 0.
CeilDiv(k, w) == CHOOSE c \in 0..k : c * w >= k /\ (c = 0 \/ (c - 1) * w < k)
C17_ChunksAndDelays ==
  LET k == Len(toProcess)
      n == CeilDiv(k, MAX_PARALLEL_PROCESS)
      members(c) == {j \in 1..Len(pipes) : ChunkOf(j) = c}
  IN /\ Filtered =>
          /\ Len(pipes) = k
          /\ \A j \in 1..k : pipes[j].id = toProcess[j]
          /\ {ChunkOf(j) : j \in 1..k} = 0..(n - 1)
          /\ \A c \in 0..(n - 1) :
               /\ members(c) = (c * MAX_PARALLEL_PROCESS + 1)..
                                 Min((c + 1) * MAX_PARALLEL_PROCESS, k)
               /\ Cardinality(members(c)) <= MAX_PARALLEL_PROCESS
               /\ c < n - 1 => Cardinality(members(c)) = MAX_PARALLEL_PROCESS
     /\ pc = "await" => batch <= n - 1
     /\ pc = "chunk_wait" => batch < n - 1
     /\ pc = "page_wait" => batch = IF k = 0 THEN 0 ELSE n - 1

\* C17 witness: a page of more filtered messages than one chunk holds is done
\* after one delay between its two chunks.
C17_Witness ==
  /\ pc = "page_wait" /\ Len(toProcess) > MAX_PARALLEL_PROCESS /\ batch = 1

\* C18: while the checkpoint stays with one channel its messageOffsetId never
\* decreases.
C18_CheckpointNeverDecreases ==
  [][(lastSelection.channelId # Undefined
        /\ lastSelection'.channelId = lastSelection.channelId)
       => lastSelection'.messageOffsetId >= lastSelection.messageOffsetId]_vars

\* C18 witness: the second page of a channel has been checkpointed.
C18_Witness ==
  /\ pc = "page_wait" /\ Len(stack) = 2
  /\ lastSelection.messageOffsetId = SmallMsgs
  /\ Len(transcript[channelId]) = SmallMsgs

\* C19: in the upload of a media message without local file the forward goes
\* first; sendMessage is called only after the forward failed and never after
\* it succeeded.
C19_ForwardBeforeResend ==
  \A k \in 1..Len(pipes) :
    Truthy(MsgOf(k).media) =>
      /\ PipeOf(k).forward = "ok" => PipeOf(k).send = "none"
      /\ (PipeOf(k).send # "none" /\ ~PipeOf(k).local) => PipeOf(k).forward = "failed"
      /\ PipeOf(k).forward # "none" => ~PipeOf(k).local
      /\ (PipeOf(k).pc = "forward") <=> (PipeOf(k).forward = "sent")

\* C19 witness: a file whose download failed was sent by its reference after
\* the forward had failed.
C19_Witness ==
  \E k \in 1..Len(pipes) :
    /\ PipeOf(k).forward = "failed" /\ PipeOf(k).send = "ok"
    /\ PipeOf(k).sentFile = "ref" /\ PipeOf(k).paths = <<"null">>

\* C20: a local file is removed only in the step in which the upload of its
\* message succeeds; the uploaded counter grows by one with every successful
\* upload and stays on a failed one; an upload whose transport call succeeded
\* returns true whether or not the file could be removed.
C20_CleanupOnlyAfterUpload ==
  [][LET succeeds(k) == k <= Len(pipes') /\ ~pipes[k].uploaded /\ pipes'[k].uploaded
         fails(k) == /\ k <= Len(pipes')
                     /\ pipes[k].send = "sent" /\ pipes'[k].send = "failed"
         answered(k) == /\ k <= Len(pipes')
                        /\ \/ pipes[k].send = "sent" /\ pipes'[k].send = "ok"
                           \/ pipes[k].forward = "sent" /\ pipes'[k].forward = "ok"
     IN /\ \A c \in Channels : \A id \in disk[c] \ disk'[c] :
             c = channelId /\ \E k \in 1..Len(pipes) : pipes[k].id = id /\ succeeds(k)
        /\ \A k \in 1..Len(pipes) :
             /\ succeeds(k) => totalUploaded' = totalUploaded + 1
             /\ fails(k) => (totalUploaded' = totalUploaded /\ disk' = disk)
             /\ answered(k) => succeeds(k)
        /\ totalUploaded' # totalUploaded
             => (hpc' = "start" \/ \E k \in 1..Len(pipes) : succeeds(k))]_vars

\* C20 witness: an upload with the local file attached has succeeded and the
\* file is gone.
C20_Witness ==
  \E k \in 1..Len(pipes) :
    /\ PipeOf(k).uploaded /\ PipeOf(k).local /\ PipeOf(k).send = "ok"
    /\ PipeOf(k).id \notin disk[channelId] /\ totalUploaded > 0

\* upload is switched off, or switched on without a target channel
NoUpload == ~uploadMode \/ targetChannelId = Undefined

\* C21: while upload mode is off or no target channel is configured, no
\* pipeline has called forwardMessages or sendMessage, every upload returned
\* false, the uploaded counter is 0 and no step removes a local file.
C21_NoUploadNoEffect ==
  /\ [](NoUpload =>
          /\ totalUploaded = 0
          /\ \A k \in 1..Len(pipes) :
               /\ PipeOf(k).forward = "none" /\ PipeOf(k).send = "none"
               /\ ~PipeOf(k).uploaded
               /\ PipeOf(k).pc \notin {"forward", "upload"})
  /\ [][(NoUpload /\ NoUpload') =>
          \A c \in Channels : disk[c] \subseteq disk'[c]]_vars

\* C21 witness: upload mode is on without a target; a message whose file was
\* downloaded has finished processing and the file is still there.
C21_Witness ==
  /\ uploadMode /\ targetChannelId = Undefined
  /\ \E k \in 1..Len(pipes) :
       /\ PipeOf(k).pc = "done" /\ PipeOf(k).mediaPath /\ PipeOf(k).counted = 1
       /\ PipeOf(k).id \in disk[channelId]

\* C22: a step in which client.downloadMedia is called for a message makes one
\* transfer and leaves the pipeline at the wait after downloadMessage; when the
\* transfer fails, downloadMessage returns null, the downloaded counter, the
\* disk and the state of the retry wrapper stay as they were; when it
\* completes, the path is returned and the counter grows by exactly one.
C22_FailedTransferReturnsNull ==
  [][\A k \in 1..Len(pipes) :
       (k <= Len(pipes') /\ pipes'[k].transfers # pipes[k].transfers) =>
         /\ pipes'[k].transfers = pipes[k].transfers + 1
         /\ pipes'[k].dl = pipes[k].dl + 1
         /\ pipes'[k].transfers <= pipes'[k].dl
         /\ pipes'[k].pc = "download_wait"
         /\ IF faultsLeft' # faultsLeft
            THEN /\ pipes'[k].paths = Append(pipes[k].paths, "null")
                 /\ ~pipes'[k].mediaPath
                 /\ totalDownloaded' = totalDownloaded
                 /\ disk' = disk
                 /\ <<pc, op, attempt, err, calls, requestCount>>'
                      = <<pc, op, attempt, err, calls, requestCount>>
            ELSE /\ pipes'[k].paths = Append(pipes[k].paths, "path")
                 /\ pipes'[k].mediaPath
                 /\ totalDownloaded' = totalDownloaded + 1]_vars

\* C22 witness: of two messages of a page one transfer failed and one
\* completed; both were processed to the end and the counter stands at one.
C22_Witness ==
  /\ totalDownloaded = 1
  /\ \E j, k \in 1..Len(pipes) :
       /\ PipeOf(j).paths = <<"null">> /\ PipeOf(j).transfers = 1
       /\ PipeOf(j).pc = "done" /\ PipeOf(j).counted = 1
       /\ PipeOf(k).paths = <<"path">> /\ PipeOf(k).transfers = 1
       /\ PipeOf(k).pc = "done"

\* the last n entries of a sequence
LastN(seq, n) == SubSeq(seq, Len(seq) - n + 1, Len(seq))

\* C23: the transcript changes only by appending the whole page of the
\* current channel, rejected messages included, in the order of the page; the
\* step that appends comes when every pipeline of the page has returned, and
\* the checkpoint of a running download moves to the page's last id in that
\* step and in no other.
C23_TranscriptRecordsWholePage ==
  /\ [][transcript' # transcript =>
          /\ Len(messages) > 0
          /\ transcript' = [transcript EXCEPT ![channelId] = @ \o messages]
          /\ Len(pipes') = Len(toProcess')
          /\ \A k \in 1..Len(pipes') :
               pipes'[k].id = toProcess'[k] /\ Returned(pipes'[k])
          /\ batch' = MaxOf({0, NumChunks(Len(toProcess')) - 1})
          /\ pc' = "page_wait"
          /\ lastSelection'.messageOffsetId = messages[Len(messages)]]_vars
  /\ [][(hpc = "run" /\ lastSelection' # lastSelection) =>
          transcript' # transcript]_vars
  /\ [](pc = "page_wait" =>
          /\ Len(transcript[channelId]) >= Len(messages)
          /\ LastN(transcript[channelId], Len(messages)) = messages)

\* C23 witness: a page with messages the filter kept and a message it rejected
\* has been recorded whole.
C23_Witness ==
  /\ pc = "page_wait"
  /\ 0 < Len(toProcess) /\ Len(toProcess) < Len(messages)
  /\ LastN(transcript[channelId], Len(messages)) = messages
  /\ \E k \in 1..Len(messages) :
       ~Kept(messages[k]) /\ messages[k] \in Range(transcript[channelId])

\* C24: a page fetch that returns an empty page makes downloadChannel return
\* in that step; while it and its callers return there is no further
\* transport call, no pipeline is started, the transcript, the checkpoint, the
\* files and the counters stay as they are, and handle exits without its
\* cooldown; and a run in which the transport raises no further error comes to
\* its end.
C24_EmptyPageTerminates ==
  /\ [][(pc = "call" /\ op = "fetch" /\ pc' \notin {"call", "backoff", "throw"}
           /\ Len(messages') = 0)
          => (pc' = "return" /\ store' = store /\ pipes' = pipes
                /\ calls' = calls /\ counters' = counters)]_vars
  /\ [][pc = "return" =>
          /\ pc' \in {"return", "idle"}
          /\ hpc' = IF pc' = "idle" THEN "exited" ELSE hpc
          /\ Len(stack') = Len(stack) - 1
          /\ store' = store /\ counters' = counters
          /\ pipes' = pipes /\ messages' = messages
          /\ calls' = calls /\ admits' = admits /\ fetchOffset' = fetchOffset
          /\ requestCount' = requestCount]_vars
  /\ (hpc = "run" /\ faultsLeft = 0) ~> (hpc = "exited" /\ stack = <<>>)

\* C24 witness: the program has exited after the empty page that follows the
\* last of three pages, each frame of the recursion having returned; every
\* message is in the transcript and the checkpoint is the last id.
C24_Witness ==
  /\ hpc = "exited" /\ stack = <<>> /\ waitMs = 0 /\ faultsLeft > 0
  /\ numMsgs = SmallMsgs /\ Len(messages) = 0 /\ fetchOffset = numMsgs
  /\ transcript[channelId] = [k \in 1..numMsgs |-> k]
  /\ lastSelection.messageOffsetId = numMsgs

\* C25: within one process no id is appended to the transcript twice; a page
\* fetch is never made from an offset below an id already recorded, and no
\* page that is being detailed or processed holds a recorded id (the ids
\* recorded by this process are the tail of the channel's transcript).
C25_RecordedOncePerRun ==
  /\ \A i \in 1..Len(recorded), j \in 1..Len(recorded) :
       i # j => recorded[i] # recorded[j]
  /\ channelId # Undefined =>
       /\ Len(transcript[channelId]) >= Len(recorded)
       /\ LastN(transcript[channelId], Len(recorded)) = recorded
  /\ (stack # <<>> /\ op = "fetch"
        /\ pc \in {"admit", "cooling", "call", "backoff", "flood_wait"})
       => \A id \in Range(recorded) : id <= Top.offsetMsgId
  /\ pc # "page_wait" =>
       /\ Range(messages) \cap Range(recorded) = {}
       /\ \A k \in 1..Len(pipes) : PipeOf(k).id \notin Range(recorded)

\* C25 witness: every message of the channel has been recorded once by a
\* process that handled a flood wait after it had recorded a page, every
\* fault of the run having struck.
C25_Witness ==
  /\ pc = "page_wait" /\ numMsgs = SmallMsgs
  /\ recorded = [k \in 1..numMsgs |-> k]
  /\ \E i \in 1..Len(stack) : stack[i].site = "catch" /\ stack[i].offsetMsgId > 0
  /\ faultsLeft = 0

\* C26: when the progress report is printed, after a page and after the empty
\* page, the processed counter is at most the total-messages counter, the
\* total counts every message recorded so far, and the percentage printed lies
\* in 0..100.
C26_ProcessedWithinTotal ==
  pc \in {"page_wait", "return"} =>
    /\ totalProcessedMessages <= totalMessages
    /\ totalMessages >= Len(recorded)
    /\ progressPercentage \in 0..100

====
